---- MODULE Spec2Model ----
(***************************************************************************)
(* Email-Summarizer: the mailbox session of main(), the retrieval loop of  *)
(* get_emails_from_last_24h, get_email_body, clean_text and the refine     *)
(* summarization chain of summarize_email, in the two variants of the      *)
(* repository (emailSummarizer.py and emailDownload.py).                   *)
(***************************************************************************)
EXTENDS Integers, Sequences, FiniteSets, TLC

VARIABLES
    \* ---- one run of main() ----
    variant,      \* which file's main() runs: "summarizer" or "download"
    now,          \* datetime.datetime.now(), in hours since the epoch
    mailbox,      \* the selected folder: message number -> day of the message
    pc,           \* position of main()
    mail,         \* the session connect_to_gmail_imap returned, or "none"
    criterion,    \* the search criterion sent to the server
    ids,          \* data[0].split(): the message numbers the search returned
    fetchLog,     \* outcome of mail.fetch for each identifier handled so far
    email_list,   \* the list get_emails_from_last_24h builds
    summaries,    \* the list summarize_email builds
    sumLog,       \* outcome of chain.invoke / text_to_speech per message handled
    fileOut,      \* content of email_summaries<date>.txt, or NoFile
    audio,        \* content of audios/combined_audio.mp3
    audioBefore,  \* audios/combined_audio.mp3 as it was when main() started
    temp,         \* audios/temp.mp3
    tts,          \* the locals of text_to_speech
    calls,        \* how often expunge, close, logout were invoked
    retrieval,    \* how get_emails_from_last_24h ended: "none", "returned", "raised"
    exc,          \* exception that left main() uncaught, or "none"
    \* ---- clean_text ----
    cpc, cin, ctext, cout,
    \* ---- get_email_body ----
    bpc, bmsg, bout,
    \* ---- the refine chain ----
    rpc, rdocs, rres, rlog

mainVars == <<variant, now, mailbox, pc, mail, criterion, ids, fetchLog, email_list,
              summaries, sumLog, fileOut, audio, audioBefore, temp, tts, calls, retrieval, exc>>
cleanVars == <<cpc, cin, ctext, cout>>
bodyVars == <<bpc, bmsg, bout>>
refineVars == <<rpc, rdocs, rres, rlog>>
vars == <<mainVars, cleanVars, bodyVars, refineVars>>
notMain == <<cleanVars, bodyVars, refineVars>>
notClean == <<mainVars, bodyVars, refineVars>>
notBody == <<mainVars, cleanVars, refineVars>>
notRefine == <<mainVars, cleanVars, bodyVars>>

-----------------------------------------------------------------------------
(* Bounds *)
MaxMsgs == 2        \* messages in the selected folder
MaxFrags == 3       \* fragments an input text of clean_text is made of
MaxParts == 3       \* parts below the root of a multipart message
MaxChunks == 3      \* chunks the text splitter produces for one body

(* Program constants *)
HoursPerDay == 24

Variants == {"summarizer", "download"}
\* A file on disk: absent, or present with its content.
NoFile == [exists |-> FALSE, content |-> <<>>]
File(content) == [exists |-> TRUE, content |-> content]

\* What client.audio.speech.create returns for a text: its narration.
Speech(text) == <<"speech", text>>

\* The locals of text_to_speech before a call: no response, no loaded audio.
NoSpeech == <<>>
TtsIdle == [response |-> NoSpeech, new_audio |-> NoSpeech, combined_audio |-> NoFile]

-----------------------------------------------------------------------------
(* Sequence helpers *)
RECURSIVE SeqsUpTo(_, _)
SeqsUpTo(S, n) ==
    IF n = 0 THEN {<<>>}
    ELSE LET shorter == SeqsUpTo(S, n - 1)
         IN  shorter \cup {Append(s, x) : s \in {t \in shorter : Len(t) = n - 1}, x \in S}

Range(s) == {s[i] : i \in 1..Len(s)}

-----------------------------------------------------------------------------
(* get_emails_from_last_24h: the date window and the search *)

\* strftime("%d-%b-%Y"): a datetime keeps its day and loses its time of day.
strftime(t) == t \div HoursPerDay

\* now - datetime.timedelta(days=1)
MinusOneDay(t) == t - HoursPerDay

since_date(t) == strftime(MinusOneDay(t))
before_date(t) == strftime(t)

\* The criterion handed to mail.search: a sequence of <<key, date>> pairs.
\* emailSummarizer.py sends (SINCE before_date), emailDownload.py sends
\* (SINCE since_date BEFORE before_date).
SearchCriterion(v, t) ==
    IF v = "summarizer"
    THEN << <<"SINCE", before_date(t)>> >>
    ELSE << <<"SINCE", since_date(t)>>, <<"BEFORE", before_date(t)>> >>

\* The server's date comparison: SINCE d keeps the messages of day d or later,
\* BEFORE d the messages of an earlier day; the keys of a criterion are ANDed.
Matches(day, crit) ==
    \A k \in 1..Len(crit) :
        IF crit[k][1] = "SINCE" THEN day >= crit[k][2] ELSE day < crit[k][2]

\* data[0].split(): the numbers of the matching messages, ascending.
RECURSIVE SearchIds(_, _, _)
SearchIds(box, crit, n) ==
    IF n = 0 THEN <<>>
    ELSE LET rest == SearchIds(box, crit, n - 1)
         IN  IF Matches(box[n], crit) THEN Append(rest, n) ELSE rest

\* The record built for one fetched message.
EmailData(box, num) == [num |-> num, date |-> box[num]]

\* FetchStep with the status test lost: a record is appended whatever the
\* fetch status.
FetchStepUnchecked(list, box, num, status) == Append(list, EmailData(box, num))

\* One pass of the fetch loop body: a record is appended when the fetch
\* status is OK, and nothing happens on any other status.
FetchStep(list, box, num, status) ==
    IF status = "OK" THEN Append(list, EmailData(box, num)) ELSE list

-----------------------------------------------------------------------------
(* main() *)

NoCalls == [expunge |-> 0, close |-> 0, logout |-> 0]

\* Where main() goes when get_emails_from_last_24h has raised: the handler
\* prints and returns; only emailDownload.py has its finally on this try.
AfterRetrievalRaised(v) == IF v = "download" THEN "expunge" ELSE "done"

\* Where main() goes when get_emails_from_last_24h has returned.
AfterRetrievalReturned(v) == IF v = "download" THEN "expunge" ELSE "invoke"

\* The days messages are dated, and the times main() runs at: early and late
\* on day 2.
Days == 0..2
Nows == {2 * HoursPerDay + 1, 2 * HoursPerDay + 23}

MainInit ==
    /\ variant \in Variants
    /\ now \in Nows
    /\ mailbox \in UNION {[1..n -> Days] : n \in 0..MaxMsgs}
    /\ pc = "load"
    /\ mail = "none"
    /\ criterion = <<>>
    /\ ids = <<>>
    /\ fetchLog = <<>>
    /\ email_list = <<>>
    /\ summaries = <<>>
    /\ sumLog = <<>>
    /\ fileOut = NoFile
    /\ audio \in {NoFile, File(<<"earlier audio">>)}
    /\ audioBefore = audio
    /\ temp = NoFile
    /\ tts = TtsIdle
    /\ calls = NoCalls
    /\ retrieval = "none"
    /\ exc = "none"

LoadCredentials ==
    /\ pc = "load"
    /\ \E ok \in BOOLEAN : pc' = IF ok THEN "connect" ELSE "done"
    /\ UNCHANGED <<variant, now, mailbox, mail, criterion, ids, fetchLog, email_list,
                   summaries, sumLog, fileOut, audio, audioBefore, temp, tts, calls, retrieval, exc>>
    /\ UNCHANGED notMain

ConnectToGmailImap ==
    /\ pc = "connect"
    /\ \E ok \in BOOLEAN :
        /\ pc' = IF ok THEN "search" ELSE "done"
        /\ mail' = IF ok THEN "session" ELSE mail
    /\ UNCHANGED <<variant, now, mailbox, criterion, ids, fetchLog, email_list,
                   summaries, sumLog, fileOut, audio, audioBefore, temp, tts, calls, retrieval, exc>>
    /\ UNCHANGED notMain

\* mail.search: the status is OK, or not OK (the function raises
\* IMAP4.error itself), or the call raises.
Search ==
    /\ pc = "search"
    /\ criterion' = SearchCriterion(variant, now)
    /\ \E result \in {"OK", "NO", "raise"} :
        IF result = "OK"
        THEN /\ ids' = SearchIds(mailbox, criterion', Len(mailbox))
             /\ pc' = "fetch"
             /\ retrieval' = retrieval
        ELSE /\ ids' = ids
             /\ pc' = AfterRetrievalRaised(variant)
             /\ retrieval' = "raised"
    /\ UNCHANGED <<variant, now, mailbox, mail, fetchLog, email_list,
                   summaries, sumLog, fileOut, audio, audioBefore, temp, tts, calls, exc>>
    /\ UNCHANGED notMain

\* One iteration of "for num in data[0].split()": mail.fetch and the parse.
Fetch ==
    /\ pc = "fetch"
    /\ Len(fetchLog) < Len(ids)
    /\ \E status \in {"OK", "NO", "raise"} :
        /\ fetchLog' = Append(fetchLog, status)
        /\ IF status = "raise"
           THEN /\ pc' = AfterRetrievalRaised(variant)
                /\ retrieval' = "raised"
                /\ email_list' = email_list
           ELSE /\ pc' = pc
                /\ retrieval' = retrieval
                /\ email_list' = FetchStep(email_list, mailbox,
                                           ids[Len(fetchLog) + 1], status)
    /\ UNCHANGED <<variant, now, mailbox, mail, criterion, ids,
                   summaries, sumLog, fileOut, audio, audioBefore, temp, tts, calls, exc>>
    /\ UNCHANGED notMain

\* "return email_list" after the loop.
ReturnEmails ==
    /\ pc = "fetch"
    /\ Len(fetchLog) = Len(ids)
    /\ pc' = AfterRetrievalReturned(variant)
    /\ retrieval' = "returned"
    /\ UNCHANGED <<variant, now, mailbox, mail, criterion, ids, fetchLog, email_list,
                   summaries, sumLog, fileOut, audio, audioBefore, temp, tts, calls, exc>>
    /\ UNCHANGED notMain

\* The block summarize_email appends for one message.
EmailInfo(email) == <<"From/Subject/Summary", email.num>>

\* CombinedAudio that forgets the existing file: the new audio alone is the
\* combined audio.
CombinedAudioNewOnly(old, new_audio) == File(<<new_audio>>)

\* The combined audio file after one more narration: created when absent,
\* the old content followed by the new audio when present.
CombinedAudio(old, new_audio) ==
    IF old.exists THEN File(Append(old.content, new_audio))
    ELSE File(<<new_audio>>)

\* summarize_email, one message: chain.invoke(cleaned_content) and the append
\* to summaries. An exception of the call is caught nowhere in
\* summarize_email, and main() only has a finally around it.
ChainInvoke ==
    /\ pc = "invoke"
    /\ Len(sumLog) < Len(email_list)
    /\ \E ok \in BOOLEAN :
        IF ok
        THEN /\ summaries' = Append(summaries,
                                    EmailInfo(email_list[Len(sumLog) + 1]))
             /\ pc' = "speech"
             /\ UNCHANGED <<sumLog, exc>>
        ELSE /\ sumLog' = Append(sumLog, "invoke raised")
             /\ exc' = "raised in summarize_email"
             /\ pc' = "expunge"
             /\ UNCHANGED summaries
    /\ UNCHANGED <<variant, now, mailbox, mail, criterion, ids, fetchLog, email_list,
                   fileOut, audio, audioBefore, temp, tts, calls, retrieval>>
    /\ UNCHANGED notMain

\* An exception raised inside text_to_speech: nothing in text_to_speech or
\* summarize_email catches it, so main() goes to its finally block.
SpeechRaises ==
    /\ sumLog' = Append(sumLog, "speech raised")
    /\ exc' = "raised in summarize_email"
    /\ pc' = "expunge"

\* client.audio.speech.create(...): the narration request.
SpeechCreate ==
    /\ pc = "speech"
    /\ \E ok \in BOOLEAN :
        IF ok
        THEN /\ tts' = [TtsIdle EXCEPT !.response = Speech(summaries[Len(summaries)])]
             /\ pc' = "stream"
             /\ UNCHANGED <<sumLog, exc>>
        ELSE /\ SpeechRaises
             /\ UNCHANGED tts
    /\ UNCHANGED <<variant, now, mailbox, mail, criterion, ids, fetchLog, email_list,
                   summaries, fileOut, audio, audioBefore, temp, calls, retrieval>>
    /\ UNCHANGED notMain

\* response.stream_to_file(temp_audio_path): audios/temp.mp3 is written.
StreamToFile ==
    /\ pc = "stream"
    /\ temp' = File(<<tts.response>>)
    /\ pc' = "loadaudio"
    /\ UNCHANGED <<variant, now, mailbox, mail, criterion, ids, fetchLog, email_list,
                   summaries, sumLog, fileOut, audio, audioBefore, tts, calls,
                   retrieval, exc>>
    /\ UNCHANGED notMain

\* new_audio = AudioSegment.from_file(temp_audio_path)
LoadNewAudio ==
    /\ pc = "loadaudio"
    /\ \E ok \in BOOLEAN :
        IF ok
        THEN /\ tts' = [tts EXCEPT !.new_audio = temp.content[1]]
             /\ pc' = "combine"
             /\ UNCHANGED <<sumLog, exc>>
        ELSE /\ SpeechRaises
             /\ UNCHANGED tts
    /\ UNCHANGED <<variant, now, mailbox, mail, criterion, ids, fetchLog, email_list,
                   summaries, fileOut, audio, audioBefore, temp, calls, retrieval>>
    /\ UNCHANGED notMain

\* The if on os.path.exists(output_file): the existing file is loaded, which
\* may raise, and the new audio is put after it; without a file the new
\* audio is the combined audio.
CombineAudio ==
    /\ pc = "combine"
    /\ \E ok \in (IF audio.exists THEN BOOLEAN ELSE {TRUE}) :
        IF ok
        THEN /\ tts' = [tts EXCEPT !.combined_audio = CombinedAudio(audio, tts.new_audio)]
             /\ pc' = "export"
             /\ UNCHANGED <<sumLog, exc>>
        ELSE /\ SpeechRaises
             /\ UNCHANGED tts
    /\ UNCHANGED <<variant, now, mailbox, mail, criterion, ids, fetchLog, email_list,
                   summaries, fileOut, audio, audioBefore, temp, calls, retrieval>>
    /\ UNCHANGED notMain

\* combined_audio.export(output_file, format="mp3")
ExportAudio ==
    /\ pc = "export"
    /\ \E ok \in BOOLEAN :
        IF ok
        THEN /\ audio' = tts.combined_audio
             /\ pc' = "remove"
             /\ UNCHANGED <<sumLog, exc>>
        ELSE /\ SpeechRaises
             /\ UNCHANGED audio
    /\ UNCHANGED <<variant, now, mailbox, mail, criterion, ids, fetchLog, email_list,
                   summaries, fileOut, audioBefore, temp, tts, calls, retrieval>>
    /\ UNCHANGED notMain

\* os.remove(temp_audio_path), and the return to the loop of summarize_email.
RemoveTemp ==
    /\ pc = "remove"
    /\ temp' = NoFile
    /\ sumLog' = Append(sumLog, "ok")
    /\ pc' = "invoke"
    /\ UNCHANGED <<variant, now, mailbox, mail, criterion, ids, fetchLog, email_list,
                   summaries, fileOut, audio, audioBefore, tts, calls, retrieval, exc>>
    /\ UNCHANGED notMain

\* summarize_email, one message: text_to_speech(email_info).
TextToSpeech ==
    \/ SpeechCreate
    \/ StreamToFile
    \/ LoadNewAudio
    \/ CombineAudio
    \/ ExportAudio
    \/ RemoveTemp

\* summarize_email, after the loop: f.writelines(summaries); main() then
\* enters its finally block.
WriteSummaries ==
    /\ pc = "invoke"
    /\ Len(sumLog) = Len(email_list)
    /\ fileOut' = File(summaries)
    /\ pc' = "expunge"
    /\ UNCHANGED <<variant, now, mailbox, mail, criterion, ids, fetchLog, email_list,
                   summaries, sumLog, audio, audioBefore, temp, tts, calls, retrieval, exc>>
    /\ UNCHANGED notMain

\* The finally block: expunge, close and logout in one try; the handler of
\* that try prints and the block ends.
AfterCleanupStep(step, ok) ==
    IF ~ok THEN "done"
    ELSE IF step = "expunge" THEN "close"
    ELSE IF step = "close" THEN "logout"
    ELSE "done"

CleanupStep(step) ==
    /\ calls' = [calls EXCEPT ![step] = @ + 1]
    /\ \E ok \in BOOLEAN : pc' = AfterCleanupStep(step, ok)
    /\ UNCHANGED <<variant, now, mailbox, mail, criterion, ids, fetchLog, email_list,
                   summaries, sumLog, fileOut, audio, audioBefore, temp, tts, retrieval, exc>>
    /\ UNCHANGED notMain

\* mail.expunge()
Expunge ==
    /\ pc = "expunge"
    /\ CleanupStep("expunge")

\* mail.close()
Close ==
    /\ pc = "close"
    /\ CleanupStep("close")

\* mail.logout()
Logout ==
    /\ pc = "logout"
    /\ CleanupStep("logout")

MainNext ==
    \/ LoadCredentials
    \/ ConnectToGmailImap
    \/ Search
    \/ Fetch
    \/ ReturnEmails
    \/ ChainInvoke
    \/ TextToSpeech
    \/ WriteSummaries
    \/ Expunge
    \/ Close
    \/ Logout

-----------------------------------------------------------------------------
(* clean_text: four regular-expression substitutions over a string *)

Char(s, i) == SubSeq(s, i, i)
From(s, i) == SubSeq(s, i, Len(s))

\* \s and \S
Whitespace == {" ", "\n", "\t"}
\* \w: a letter, a digit or the underscore; the texts of this model hold no
\* other characters than these and letters.
NonWord == Whitespace \cup {"<", ">", "/", ":", ".", "&", ";", "\""}
IsWord(c) == c \notin NonWord

\* Index of the ">" that ends the shortest match of <.*?> whose "." starts at
\* j, or 0: "." does not match a line break.
RECURSIVE TagEnd(_, _)
TagEnd(s, j) ==
    IF j > Len(s) THEN 0
    ELSE IF Char(s, j) = ">" THEN j
    ELSE IF Char(s, j) = "\n" THEN 0
    ELSE TagEnd(s, j + 1)

\* re.sub(r'<.*?>', '', text)
RECURSIVE SubTags(_)
SubTags(s) ==
    IF s = "" THEN ""
    ELSE LET e == IF Head(s) = "<" THEN TagEnd(s, 2) ELSE 0
         IN  IF e > 0 THEN SubTags(From(s, e + 1))
             ELSE Head(s) \o SubTags(Tail(s))

\* Index of the last character of the longest run of \S that starts at j;
\* j - 1 when there is none.
RECURSIVE NonSpaceEnd(_, _)
NonSpaceEnd(s, j) ==
    IF j > Len(s) \/ Char(s, j) \in Whitespace THEN j - 1
    ELSE NonSpaceEnd(s, j + 1)

\* Index of the last character of a match of http\S+|www.\S+ at the start of
\* s, or 0. The "." after www is any character but a line break.
UrlEnd(s) ==
    IF Len(s) >= 5 /\ SubSeq(s, 1, 4) = "http" /\ NonSpaceEnd(s, 5) >= 5
    THEN NonSpaceEnd(s, 5)
    ELSE IF /\ Len(s) >= 5
            /\ SubSeq(s, 1, 3) = "www"
            /\ Char(s, 4) # "\n"
            /\ NonSpaceEnd(s, 5) >= 5
    THEN NonSpaceEnd(s, 5)
    ELSE 0

\* re.sub(r'http\S+|www.\S+', '', text)
RECURSIVE SubUrls(_)
SubUrls(s) ==
    IF s = "" THEN ""
    ELSE LET e == UrlEnd(s)
         IN  IF e > 0 THEN SubUrls(From(s, e + 1))
             ELSE Head(s) \o SubUrls(Tail(s))

\* Index of the last character of the longest run of \s that starts at j.
RECURSIVE SpaceEnd(_, _)
SpaceEnd(s, j) ==
    IF j > Len(s) \/ Char(s, j) \notin Whitespace THEN j - 1
    ELSE SpaceEnd(s, j + 1)

\* re.sub(r'\s+', ' ', text)
RECURSIVE SubSpaces(_)
SubSpaces(s) ==
    IF s = "" THEN ""
    ELSE IF Head(s) \in Whitespace
    THEN " " \o SubSpaces(From(s, SpaceEnd(s, 1) + 1))
    ELSE Head(s) \o SubSpaces(Tail(s))

\* Index of the last character of the longest run of \w that starts at j.
RECURSIVE WordEnd(_, _)
WordEnd(s, j) ==
    IF j > Len(s) \/ ~IsWord(Char(s, j)) THEN j - 1
    ELSE WordEnd(s, j + 1)

\* Index of the ";" of a match of &\w+; at the start of s, or 0.
EntityEnd(s) ==
    IF Head(s) = "&" /\ WordEnd(s, 2) >= 2 /\ WordEnd(s, 2) < Len(s)
       /\ Char(s, WordEnd(s, 2) + 1) = ";"
    THEN WordEnd(s, 2) + 1
    ELSE 0

\* re.sub(r'&\w+;', '', text)
RECURSIVE SubEntities(_)
SubEntities(s) ==
    IF s = "" THEN ""
    ELSE LET e == EntityEnd(s)
         IN  IF e > 0 THEN SubEntities(From(s, e + 1))
             ELSE Head(s) \o SubEntities(Tail(s))

\* The four statements of clean_text, in the order the code runs them.
CleanSteps == <<"tags", "urls", "spaces", "entities">>

CleanStep(step, s) ==
    IF step = "tags" THEN SubTags(s)
    ELSE IF step = "urls" THEN SubUrls(s)
    ELSE IF step = "spaces" THEN SubSpaces(s)
    ELSE SubEntities(s)

clean_text(s) ==
    CleanStep(CleanSteps[4], CleanStep(CleanSteps[3],
        CleanStep(CleanSteps[2], CleanStep(CleanSteps[1], s))))

\* The texts clean_text is run on: every text of up to MaxFrags fragments,
\* and the example of the sanitizer's documentation.
Fragments == {"<b>", "<", "Hi", " ", "\n", "http://x", "www", "&amp;"}

RECURSIVE Join(_)
Join(frags) == IF frags = <<>> THEN "" ELSE Head(frags) \o Join(Tail(frags))

ExampleText == "<b>Hi</b> http://x &amp; more"
Texts == {Join(f) : f \in SeqsUpTo(Fragments, MaxFrags)} \cup {ExampleText}

CleanInit ==
    /\ cin \in Texts
    /\ cpc = 1
    /\ ctext = cin
    /\ cout = <<>>

CleanIdle ==
    /\ cin = ""
    /\ cpc = 0
    /\ ctext = ""
    /\ cout = <<>>

\* One statement of clean_text.
CleanStatement ==
    /\ cpc \in 1..Len(CleanSteps)
    /\ ctext' = CleanStep(CleanSteps[cpc], ctext)
    /\ cpc' = cpc + 1
    /\ UNCHANGED <<cin, cout>>
    /\ UNCHANGED notClean

\* "return text"
CleanReturn ==
    /\ cpc = Len(CleanSteps) + 1
    /\ cout' = Append(cout, ctext)
    /\ cpc' = 0
    /\ UNCHANGED <<cin, ctext>>
    /\ UNCHANGED notClean

\* The second call: get_emails_from_last_24h has cleaned the body, and
\* summarize_email cleans email['body'] again.
CleanAgain ==
    /\ cpc = 0
    /\ Len(cout) = 1
    /\ ctext' = cout[1]
    /\ cpc' = 1
    /\ UNCHANGED <<cin, cout>>
    /\ UNCHANGED notClean

CleanNext ==
    \/ CleanStatement
    \/ CleanReturn
    \/ CleanAgain

-----------------------------------------------------------------------------
(* get_email_body *)

\* What part.get("Content-Disposition") gives: nothing when the header is
\* absent, else a disposition type with a filename parameter.
Dispositions ==
    { <<>>,
      <<[type |-> "attachment", filename |-> "a.txt"]>>,
      <<[type |-> "inline", filename |-> "attachment.txt"]>> }

\* str(part.get("Content-Disposition")): "None" for an absent header, else
\* the header's text.
DispositionStr(d) ==
    IF d = <<>> THEN "None"
    ELSE d[1].type \o "; filename=\"" \o d[1].filename \o "\""

\* needle in hay, on strings
Contains(needle, hay) ==
    \E i \in 1..(Len(hay) - Len(needle) + 1) :
        SubSeq(hay, i, i + Len(needle) - 1) = needle

\* bytes.decode() of a payload of ASCII bytes 32 (the space) to 95 (the
\* underscore).
Ascii ==
    " !\"#$%&'()*+,-./0123456789:;<=>?@ABCDEFGHIJKLMNOPQRSTUVWXYZ[\\]^_"

Chr(b) == SubSeq(Ascii, b - 31, b - 31)

RECURSIVE Decode(_)
Decode(bytes) ==
    IF bytes = <<>> THEN "" ELSE Chr(Head(bytes)) \o Decode(Tail(bytes))

\* The leaves of a message: a content type, a disposition, a payload. Each
\* kind of leaf carries a payload of its own ("P0", "P1", "P2" for plain
\* text, "H0", "H1", "H2" for HTML), so that the result tells which kind of
\* part was returned.
PayloadOf(ctype, d) ==
    << IF ctype = "text/plain" THEN 80 ELSE 72,
       IF d = <<>> THEN 48 ELSE IF d[1].type = "attachment" THEN 49 ELSE 50 >>

Leaves ==
    {[multipart |-> FALSE, ctype |-> c, disposition |-> d,
      payload |-> PayloadOf(c, d)] :
        c \in {"text/plain", "text/html"}, d \in Dispositions}

Container(parts) ==
    [multipart |-> TRUE, ctype |-> "multipart/mixed", disposition |-> <<>>,
     parts |-> parts]

\* Every sequence of part trees with n nodes in all, and every part tree with
\* n nodes: a leaf, or a multipart container of at least one part.
RECURSIVE Forests(_), Trees(_)
Forests(n) ==
    IF n = 0 THEN {<<>>}
    ELSE UNION {{<<t>> \o f : t \in Trees(j), f \in Forests(n - j)} : j \in 1..n}
Trees(n) ==
    IF n = 1 THEN Leaves ELSE {Container(f) : f \in Forests(n - 1)}

Messages ==
    Leaves \cup UNION {{Container(f) : f \in Forests(n)} : n \in 1..MaxParts}

\* email_message.walk(): the message, then the parts below it, depth first
\* and in order.
RECURSIVE Walk(_), WalkAll(_)
Walk(m) == IF m.multipart THEN <<m>> \o WalkAll(m.parts) ELSE <<m>>
WalkAll(parts) ==
    IF parts = <<>> THEN <<>> ELSE Walk(Head(parts)) \o WalkAll(Tail(parts))

\* IsBodyPart accepting any text part, HTML included.
IsBodyPartAnyText(part) ==
    /\ part.ctype \in {"text/plain", "text/html"}
    /\ ~Contains("attachment", DispositionStr(part.disposition))

\* The test of the loop over walk().
IsBodyPart(part) ==
    /\ part.ctype = "text/plain"
    /\ ~Contains("attachment", DispositionStr(part.disposition))

\* The loop over walk(): the payload of the first part that passes the test,
\* and "" when the loop ends.
RECURSIVE FirstBodyPart(_)
FirstBodyPart(parts) ==
    IF parts = <<>> THEN ""
    ELSE IF IsBodyPart(Head(parts)) THEN Decode(Head(parts).payload)
    ELSE FirstBodyPart(Tail(parts))

get_email_body(m) ==
    IF m.multipart THEN FirstBodyPart(Walk(m)) ELSE Decode(m.payload)

BodyInit ==
    /\ bmsg \in Messages
    /\ bpc = "call"
    /\ bout = ""

BodyIdle ==
    /\ bmsg = <<>>
    /\ bpc = "idle"
    /\ bout = ""

GetEmailBody ==
    /\ bpc = "call"
    /\ bout' = get_email_body(bmsg)
    /\ bpc' = "returned"
    /\ UNCHANGED bmsg
    /\ UNCHANGED notBody

BodyNext ==
    \/ GetEmailBody

-----------------------------------------------------------------------------
(* summarize_email: the prompts and the refine chain *)

\* A template is a sequence of literal pieces and {variable} pieces.
Lit(s) == [var |-> FALSE, text |-> s]
Var(name) == [var |-> TRUE, text |-> name]

question_prompt_template ==
    << Lit("Imagine you are the CEO of a company and you need to read through "
           \o "the newletters in your inbox to stay update about market trends "
           \o "and businesses. \n"
           \o "Please provide an intelligent summary of the following text with "
           \o "key points that can be used to make informed decisions. "
           \o "Write in bullet points:\nTEXT: "),
       Var("text"),
       Lit("\nSUMMARY:") >>

\* The template's triple backquotes are written ''' here.
refine_prompt_template ==
    << Lit("Write a concise summary of the following text delimited by triple "
           \o "backquotes.\n"
           \o "Return your response in bullet points which covers the key "
           \o "points of the text.\n'''"),
       Var("text"),
       Lit("'''\nBULLET POINT SUMMARY:") >>

\* PromptTemplate.format on the inputs a chain is called with: each
\* {variable} of the template is replaced by the input of that name, and an
\* input the template does not name is not used.
RECURSIVE Format(_, _)
Format(template, inputs) ==
    IF template = <<>> THEN ""
    ELSE (IF Head(template).var THEN inputs[Head(template).text]
          ELSE Head(template).text) \o Format(Tail(template), inputs)

\* What the refine chain hands to its two prompts: the initial call gets the
\* first document as "text", a refine call gets the next document as "text"
\* and the result so far as "existing_answer".
InitialInputs(docs) == [text |-> docs[1]]
RefineInputs(doc, res) == [text |-> doc, existing_answer |-> res]

\* The chunks of a body, and the answers the completion service gives.
ChunkTexts == {"alpha beta", "gamma delta"}
Answers == {"- point one", "- point two"}

RefineInit ==
    /\ rdocs \in SeqsUpTo(ChunkTexts, MaxChunks) \ {<<>>}
    /\ rpc = "initial"
    /\ rres = ""
    /\ rlog = <<>>

RefineIdle ==
    /\ rdocs = <<>>
    /\ rpc = "idle"
    /\ rres = ""
    /\ rlog = <<>>

\* One call of the completion service, recorded.
Call(kind, chunk, prompt, answer) ==
    [kind |-> kind, chunk |-> chunk, prompt |-> prompt, answer |-> answer]

\* The chain's first step: the question prompt on the first chunk.
InitialCall ==
    /\ rpc = "initial"
    /\ \E answer \in Answers :
        /\ rlog' = Append(rlog, Call("initial", 1,
                          Format(question_prompt_template, InitialInputs(rdocs)),
                          answer))
        /\ rres' = answer
    /\ rpc' = "refine"
    /\ UNCHANGED rdocs
    /\ UNCHANGED notRefine

\* The chain's loop over docs[1:]: the refine prompt on the next chunk.
RefineCall ==
    /\ rpc = "refine"
    /\ Len(rlog) < Len(rdocs)
    /\ \E answer \in Answers :
        /\ rlog' = Append(rlog, Call("refine", Len(rlog) + 1,
                          Format(refine_prompt_template,
                                 RefineInputs(rdocs[Len(rlog) + 1], rres)),
                          answer))
        /\ rres' = answer
    /\ UNCHANGED <<rpc, rdocs>>
    /\ UNCHANGED notRefine

\* The chain returns the last result as output_text.
ChainReturn ==
    /\ rpc = "refine"
    /\ Len(rlog) = Len(rdocs)
    /\ rpc' = "returned"
    /\ UNCHANGED <<rdocs, rres, rlog>>
    /\ UNCHANGED notRefine

RefineNext ==
    \/ InitialCall
    \/ RefineCall
    \/ ChainReturn

-----------------------------------------------------------------------------
(* Specifications *)

\* One run of main().
Init == MainInit /\ CleanIdle /\ BodyIdle /\ RefineIdle
Next == MainNext
Spec == Init /\ [][Next]_vars

MainIdle ==
    /\ variant = "summarizer"
    /\ now = 0
    /\ mailbox = <<>>
    /\ pc = "idle"
    /\ mail = "none"
    /\ criterion = <<>>
    /\ ids = <<>>
    /\ fetchLog = <<>>
    /\ email_list = <<>>
    /\ summaries = <<>>
    /\ sumLog = <<>>
    /\ fileOut = NoFile
    /\ audio = NoFile
    /\ audioBefore = NoFile
    /\ temp = NoFile
    /\ tts = TtsIdle
    /\ calls = NoCalls
    /\ retrieval = "none"
    /\ exc = "none"

\* clean_text on every text, called twice.
InitClean == MainIdle /\ CleanInit /\ BodyIdle /\ RefineIdle
NextClean == CleanNext
SpecClean == InitClean /\ [][NextClean]_vars

\* get_email_body on every message.
InitBody == MainIdle /\ CleanIdle /\ BodyInit /\ RefineIdle
NextBody == BodyNext
SpecBody == InitBody /\ [][NextBody]_vars

\* The refine chain on every sequence of chunks.
InitRefine == MainIdle /\ CleanIdle /\ BodyIdle /\ RefineInit
NextRefine == RefineNext
SpecRefine == InitRefine /\ [][NextRefine]_vars

-----------------------------------------------------------------------------
(* Claims about main() and get_emails_from_last_24h, under Spec *)

MainOver == pc = "done"

\* C1: in every run of main() in which connect_to_gmail_imap returned a
\* session, the cleanup that ends in mail.logout() has run exactly once when
\* main() is over, also when get_emails_from_last_24h raised.
C1_CleanupOncePerSession ==
    (MainOver /\ mail = "session") => calls.logout = 1

\* C2: once the cleanup has started, each of expunge, close and logout is
\* attempted, whichever of the earlier steps failed: when main() is over and
\* expunge was invoked, close and logout were invoked too.
C2_EveryCleanupStepAttempted ==
    (MainOver /\ calls.expunge > 0) => (calls.close > 0 /\ calls.logout > 0)

\* The messages of summarize_email whose completion or narration call failed.
FailedMessages == {j \in 1..Len(sumLog) : sumLog[j] # "ok"}

\* C4: a failure of the completion (or narration) call for message i does not
\* prevent the messages after i from being summarized and written to the
\* output file: when main() is over, every message after a failed one has
\* its block in summaries and in the file.
C4_RunContinuesAfterFailedMessage ==
    MainOver =>
        \A j \in FailedMessages : \A i \in (j + 1)..Len(email_list) :
            /\ EmailInfo(email_list[i]) \in Range(summaries)
            /\ fileOut.exists
            /\ EmailInfo(email_list[i]) \in Range(fileOut.content)

\* The records of the identifiers handled so far whose fetch status was OK,
\* in search order.
RECURSIVE FetchedOk(_)
FetchedOk(n) ==
    IF n = 0 THEN <<>>
    ELSE IF fetchLog[n] = "OK"
    THEN Append(FetchedOk(n - 1), [num |-> ids[n], date |-> mailbox[ids[n]]])
    ELSE FetchedOk(n - 1)

FetchRaised == \E i \in 1..Len(fetchLog) : fetchLog[i] = "raise"

KeyDates(crit, key) == {crit[k][2] : k \in {n \in 1..Len(crit) : crit[n][1] = key}}

\* C6: for a fixed now, the criterion sent to the server is bounded below by
\* the day of now - 1 day and above by the day of now, in both variants, and
\* only messages of that window are used downstream.
C6_SearchWindow ==
    criterion # <<>> =>
        /\ KeyDates(criterion, "SINCE") = {strftime(MinusOneDay(now))}
        /\ KeyDates(criterion, "BEFORE") = {strftime(now)}
        /\ \A i \in 1..Len(email_list) :
            /\ email_list[i].date >= strftime(MinusOneDay(now))
            /\ email_list[i].date <= strftime(now)

-----------------------------------------------------------------------------
(* Claims about text_to_speech and the files of summarize_email, under Spec *)

\* main() is not inside a call of text_to_speech.
OutsideTextToSpeech ==
    pc \notin {"speech", "stream", "loadaudio", "combine", "export", "remove"}

\* C11: text_to_speech removes the temporary audio file on every exit path:
\* after any call, whether the narration request, a load or the export
\* succeeded or failed, no temporary audio file is left on disk.
C11_TempFileRemovedOnEveryPath ==
    OutsideTextToSpeech => ~temp.exists

\* The messages narrated so far: text_to_speech has returned for them.
Narrated == {i \in 1..Len(sumLog) : sumLog[i] = "ok"}

\* The narrations of the first n blocks of summaries, in order.
RECURSIVE Narrations(_)
Narrations(n) ==
    IF n = 0 THEN <<>> ELSE Append(Narrations(n - 1), Speech(summaries[n]))

\* A call of text_to_speech did not complete.
NarrationFailed == \E i \in 1..Len(sumLog) : sumLog[i] = "speech raised"

\* C12: between the calls of text_to_speech, and when summarize_email is
\* over, as long as every call completed, the combined audio file holds what
\* it held before the run followed by the narrations of the messages narrated
\* so far, in the order they were summarized; it exists once a message is
\* narrated, and a call only appends.
C12_CombinedAudioAppendsInOrder ==
    (OutsideTextToSpeech /\ ~NarrationFailed) =>
        /\ audio.content = audioBefore.content \o Narrations(Cardinality(Narrated))
        /\ audio.exists = (audioBefore.exists \/ Narrated # {})

\* Two messages narrated onto a file that existed, and onto none.
C12_Witness ==
    /\ pc = "done"
    /\ Cardinality(Narrated) = 2
    /\ audio.content = audioBefore.content
                           \o <<Speech(summaries[1]), Speech(summaries[2])>>
    /\ summaries[1] # summaries[2]

\* summarize_email is over: it returned, or an exception left it.
SummarizeOver ==
    /\ variant = "summarizer"
    /\ retrieval = "returned"
    /\ pc \in {"expunge", "close", "logout", "done"}

\* C13: at the end of every run of summarize_email the dated text file holds
\* one From/Subject/Summary block for each message whose summary was
\* produced, in retrieval order; so every message narrated into the combined
\* audio has its block in the file, also when a later message fails.
C13_TextFileHoldsEverySummary ==
    SummarizeOver =>
        /\ fileOut.content = summaries
        /\ \A i \in Narrated : EmailInfo(email_list[i]) \in Range(fileOut.content)

-----------------------------------------------------------------------------
(* Claims about the refine chain, under SpecRefine *)

\* C3: for a body of K >= 1 chunks, one initial call is made on chunk 1 and
\* K - 1 refine calls follow in chunk order; the prompt of the refine call
\* for chunk k + 1 contains the summary returned for chunk k and the text of
\* chunk k + 1; the output is the result of the last call.
C3_RefineFoldsRunningSummary ==
    /\ \A k \in 1..Len(rlog) :
        /\ rlog[k].kind = (IF k = 1 THEN "initial" ELSE "refine")
        /\ rlog[k].chunk = k
        /\ Contains(rdocs[k], rlog[k].prompt)
        /\ k > 1 => Contains(rlog[k - 1].answer, rlog[k].prompt)
    /\ rpc = "returned" =>
        /\ Len(rlog) = Len(rdocs)
        /\ rres = rlog[Len(rlog)].answer

-----------------------------------------------------------------------------
(* Claims about clean_text, under SpecClean *)

\* C7: clean_text is idempotent: cleaning a cleaned text gives the same text.
C7_CleanTextIdempotent ==
    Len(cout) = 2 => cout[2] = cout[1]

HasSpaceRun(s) ==
    \E i \in 1..(Len(s) - 1) :
        Char(s, i) \in Whitespace /\ Char(s, i + 1) \in Whitespace

\* C8: clean_text returns its input with tags removed, then links, then
\* entity references, then every whitespace run collapsed to one space, so
\* that the result holds no run of two whitespace characters and the
\* documented example yields "Hi more".
C8_CleanTextOrder ==
    Len(cout) >= 1 =>
        /\ cout[1] = SubSpaces(SubEntities(SubUrls(SubTags(cin))))
        /\ ~HasSpaceRun(cout[1])
        /\ cin = ExampleText => cout[1] = "Hi more"

-----------------------------------------------------------------------------
(* Claims about get_email_body, under SpecBody *)

BodyReturned == bpc = "returned"

HasPlainPart(m) == \E i \in 1..Len(Walk(m)) : Walk(m)[i].ctype = "text/plain"

\* C9 as stated: get_email_body returns "" for every message with no
\* text/plain part, a single-part HTML message included.
C9_NoPlainPartGivesEmpty ==
    (BodyReturned /\ ~HasPlainPart(bmsg)) => bout = ""

\* C9, amended: get_email_body returns "" for every multipart message with
\* no text/plain part, such as a multipart whose sole part is HTML; for a
\* single-part message it returns the decoded payload whatever the content
\* type, so a single-part HTML message yields its HTML.
C9_MultipartWithoutPlainGivesEmpty ==
    BodyReturned =>
        IF bmsg.multipart
        THEN ~HasPlainPart(bmsg) => bout = ""
        ELSE bout = Decode(bmsg.payload)

\* A multipart message whose sole part is HTML has given "".
C9_Witness ==
    /\ BodyReturned
    /\ bmsg.multipart
    /\ Len(bmsg.parts) = 1
    /\ bmsg.parts[1].ctype = "text/html"
    /\ bout = ""

\* A part whose disposition is attachment.
IsAttachment(part) ==
    part.disposition # <<>> /\ part.disposition[1].type = "attachment"

\* The content of the first part, in order, that is text/plain and whose
\* disposition is not attachment; "" when there is none.
RECURSIVE FirstPlainNonAttachment(_)
FirstPlainNonAttachment(parts) ==
    IF parts = <<>> THEN ""
    ELSE IF Head(parts).ctype = "text/plain" /\ ~IsAttachment(Head(parts))
    THEN Decode(Head(parts).payload)
    ELSE FirstPlainNonAttachment(Tail(parts))

\* C10: for every multipart message get_email_body returns the content of
\* the first part, depth first, that is text/plain and whose disposition is
\* not attachment, and "" when there is no such part.
C10_FirstPlainNonAttachmentPart ==
    (BodyReturned /\ bmsg.multipart) =>
        bout = FirstPlainNonAttachment(Walk(bmsg))

====
